---- MODULE Spec2Model ----
(***************************************************************************)
(* A model of S3Service (src/utils/s3.ts): the storage facade of the       *)
(* soundboard.  Strings are sequences of one-character strings, the bucket *)
(* is a partial function from keys to objects, and every remote request is *)
(* one atomic step at the storage service that either succeeds or fails    *)
(* with an error of the service.                                           *)
(***************************************************************************)
EXTENDS Integers, Sequences, FiniteSets, TLC

VARIABLES env, fileName, bucket, ret, sent, resp, urls, cl

vars == <<env, fileName, bucket, ret, sent, resp, urls, cl>>

(***************************************************************************)
(* Bounds of the model.                                                    *)
(***************************************************************************)
\* longest file name the sanitizer is applied to
MaxLen == 5

(***************************************************************************)
(* Strings.                                                                *)
(***************************************************************************)
Separators == {"/", "\\"}

Mp3 == <<".", "m", "p", "3">>

\* String.prototype.endsWith
endsWith(s, suffix) ==
    /\ Len(s) >= Len(suffix)
    /\ SubSeq(s, Len(s) - Len(suffix) + 1, Len(s)) = suffix

\* a replace whose pattern leaves out the backslash
stripSlashes(s) == SelectSeq(s, LAMBDA c : c # "/")

\* fileName.replace(/[\/\\]/g, '')
stripSeparators(s) == SelectSeq(s, LAMBDA c : c \notin Separators)

\* a sanitizer that forgets the replace
sanitizeNoStrip(fileName_) ==
    IF endsWith(fileName_, Mp3) THEN fileName_ ELSE fileName_ \o Mp3

sanitizeFileName(fileName_) ==
    LET sanitized == stripSeparators(fileName_)
    IN  IF endsWith(sanitized, Mp3) THEN sanitized ELSE sanitized \o Mp3

\* the set of the characters of a string
CharsOf(s) == {s[i] : i \in 1..Len(s)}

\* what the facade calls a sanitized key
IsSanitized(k) == CharsOf(k) \cap Separators = {} /\ endsWith(k, Mp3)

(***************************************************************************)
(* Values shared by the specifications.                                    *)
(***************************************************************************)
NoError == [name |-> "none"]

NoCall == [op |-> "none", arg |-> <<>>, status |-> "none", value |-> <<>>,
           error |-> NoError]

Returned(op, arg, value) ==
    [op |-> op, arg |-> arg, status |-> "ok", value |-> value, error |-> NoError]

Thrown(op, arg, error) ==
    [op |-> op, arg |-> arg, status |-> "throw", value |-> <<>>, error |-> error]

\* new Error(`${msg}: ${error}`)
Wrap(msg, error) == [name |-> "Error", msg |-> msg, cause |-> error]

IdleCleanup == [pc |-> "idle"]

EmptyBucket == << >>

NoEnv == << >>

(***************************************************************************)
(* SpecSan: sanitizeFileName applied to every short string, and to its own *)
(* result.                                                                 *)
(***************************************************************************)
SanChars == {"/", "\\", ".", "m", "p", "3", "a"}

SanNames == UNION {[1..n -> SanChars] : n \in 0..MaxLen}

InitSan ==
    /\ fileName \in SanNames
    /\ ret = NoCall
    /\ env = NoEnv
    /\ bucket = EmptyBucket
    /\ sent = {}
    /\ resp = "none"
    /\ urls = {}
    /\ cl = IdleCleanup

Sanitize ==
    /\ ret.op = "none"
    /\ ret' = Returned("sanitizeFileName", fileName, sanitizeFileName(fileName))
    /\ UNCHANGED <<env, fileName, bucket, sent, resp, urls, cl>>

SanitizeAgain ==
    /\ ret.op = "sanitizeFileName"
    /\ ret.arg = fileName
    /\ ret' = Returned("sanitizeFileName", ret.value, sanitizeFileName(ret.value))
    /\ UNCHANGED <<env, fileName, bucket, sent, resp, urls, cl>>

NextSan == Sanitize \/ SanitizeAgain

SpecSan == InitSan /\ [][NextSan]_vars

\* C1: every result of sanitizeFileName has no '/' and no '\', ends with
\* '.mp3', and is a fixed point of sanitizeFileName: sanitizing a result
\* (the second call, whose argument is the first call's result) returns its
\* argument.
C1_SanitizedAndIdempotent ==
    ret.op = "sanitizeFileName" =>
        /\ CharsOf(ret.value) \cap Separators = {}
        /\ endsWith(ret.value, Mp3)
        /\ sanitizeFileName(ret.value) = ret.value
        /\ (ret.arg # fileName => ret.value = ret.arg)

\* a name with separators inside its '.mp3' ending was sanitized twice
C1_Witness ==
    /\ ret.op = "sanitizeFileName"
    /\ fileName = <<".", "m", "/", "p", "3">>
    /\ ret.arg = Mp3
    /\ ret.value = Mp3

(***************************************************************************)
(* The bucket and the storage service.                                     *)
(***************************************************************************)
\* the keys the bucket may hold; other clients of the bucket may have put
\* keys there that the facade itself never writes
KeySlash == <<"a", "/", "b", ".", "m", "p", "3">>
KeyLower == <<"a", "b", ".", "m", "p", "3">>
KeyUpper == <<"A", "b", ".", "m", "p", "3">>
KeyText == <<"c", ".", "t", "x", "t">>

KeyPool == {KeySlash, KeyLower, KeyUpper, KeyText}

\* the file names callers pass in
Names == {KeySlash, KeyLower, <<"A", "\\", "b">>}

\* byte lengths of the stored bodies and of the buffers callers upload
Sizes == {10, 1024, 2000}

\* the service's clock readings
Times == {1, 2}

Objects == [size : Sizes, lastModified : Times]

Buckets == UNION {[ks -> Objects] : ks \in SUBSET KeyPool}

\* errors of the service and of the transport other than not-found
ServiceErrors == {"AccessDenied", "NetworkError"}

ServiceError(n) == [name |-> n]

\* the keys of a bucket
Keys(b) == DOMAIN b

\* PutObject
Put(b, key, obj) == [k \in Keys(b) \cup {key} |-> IF k = key THEN obj ELSE b[k]]

\* DeleteObject
Remove(b, key) == [k \in Keys(b) \ {key} |-> b[k]]

\* MaxKeys of the listing request
MaxKeys == 1000

Min(a, b) == IF a < b THEN a ELSE b

\* the orders in which the service may return a set of keys
Orders(ks) ==
    {o \in [1..Cardinality(ks) -> ks] :
        \A i, j \in 1..Cardinality(ks) : o[i] = o[j] => i = j}

\* response.Contents of ListObjectsV2 for the keys in service order: at
\* most MaxKeys objects
Contents(b, order) ==
    [i \in 1..Min(Len(order), MaxKeys) |->
        [Key |-> order[i], Size |-> b[order[i]].size,
         LastModified |-> b[order[i]].lastModified]]

(***************************************************************************)
(* String.prototype.localeCompare: the collation of the runtime's default  *)
(* locale on the characters of the keys.  Strings compare by the primary   *)
(* weights of their characters (punctuation, then digits, then letters,    *)
(* letters of either case alike), and strings alike there compare by case, *)
(* lower case first.                                                       *)
(***************************************************************************)
Primary(c) ==
    CASE c = "." -> 1
      [] c = "/" -> 2
      [] c = "\\" -> 3
      [] c = "3" -> 4
      [] c \in {"a", "A"} -> 5
      [] c = "b" -> 6
      [] c = "c" -> 7
      [] c = "m" -> 8
      [] c = "p" -> 9
      [] c = "t" -> 10
      [] c = "x" -> 11

Tertiary(c) == IF c = "A" THEN 1 ELSE 0

\* code points of the same characters
CodePoint(c) ==
    CASE c = "." -> 46
      [] c = "/" -> 47
      [] c = "3" -> 51
      [] c = "A" -> 65
      [] c = "\\" -> 92
      [] c = "a" -> 97
      [] c = "b" -> 98
      [] c = "c" -> 99
      [] c = "m" -> 109
      [] c = "p" -> 112
      [] c = "t" -> 116
      [] c = "x" -> 120

\* the order of two sequences of weights: -1, 0 or 1
CompareWeights(x, y) ==
    LET n == Min(Len(x), Len(y))
        diff == {i \in 1..n : x[i] # y[i]}
    IN  IF diff = {}
        THEN (IF Len(x) < Len(y) THEN -1 ELSE IF Len(x) > Len(y) THEN 1 ELSE 0)
        ELSE LET i == CHOOSE i \in diff : \A j \in diff : i <= j
             IN  IF x[i] < y[i] THEN -1 ELSE 1

\* a comparison by code points, as a < b would give
compareCodePoints(a, b) ==
    CompareWeights([i \in 1..Len(a) |-> CodePoint(a[i])],
                   [i \in 1..Len(b) |-> CodePoint(b[i])])

localeCompare(a, b) ==
    LET p == CompareWeights([i \in 1..Len(a) |-> Primary(a[i])],
                            [i \in 1..Len(b) |-> Primary(b[i])])
    IN  IF p # 0 THEN p
        ELSE CompareWeights([i \in 1..Len(a) |-> Tertiary(a[i])],
                            [i \in 1..Len(b) |-> Tertiary(b[i])])

(***************************************************************************)
(* The pure parts of the facade.                                           *)
(***************************************************************************)
\* this.baseUrl
BaseUrl == <<"u">>

\* a URL without the '/' between the base and the key
getPublicUrlNoSlash(key) == BaseUrl \o key

\* `${this.baseUrl}/${key}`
getPublicUrl(key) == BaseUrl \o <<"/">> \o key

\* the AudioFile that listFiles maps an object of the listing to
AudioFile(object) ==
    [key |-> object.Key, name |-> object.Key, size |-> object.Size,
     lastModified |-> object.LastModified, url |-> getPublicUrl(object.Key)]

\* an insertion that compares by code points
InsertByCodePoint(sorted, file) ==
    LET after == {i \in 1..Len(sorted) : compareCodePoints(file.name, sorted[i].name) < 0}
        at == IF after = {} THEN Len(sorted) + 1
              ELSE CHOOSE i \in after : \A j \in after : i <= j
    IN  SubSeq(sorted, 1, at - 1) \o <<file>> \o SubSeq(sorted, at, Len(sorted))

\* Array.prototype.sort with (a, b) => a.name.localeCompare(b.name): a
\* stable sort, here by insertion
Insert(sorted, file) ==
    LET after == {i \in 1..Len(sorted) : localeCompare(file.name, sorted[i].name) < 0}
        at == IF after = {} THEN Len(sorted) + 1
              ELSE CHOOSE i \in after : \A j \in after : i <= j
    IN  SubSeq(sorted, 1, at - 1) \o <<file>> \o SubSeq(sorted, at, Len(sorted))

RECURSIVE SortByName(_)
SortByName(files) ==
    IF files = <<>> THEN <<>>
    ELSE Insert(SortByName(SubSeq(files, 1, Len(files) - 1)), files[Len(files)])

\* response.Contents.filter(...).map(...)
FilterMap(contents) ==
    LET mp3 == SelectSeq(contents, LAMBDA object : endsWith(object.Key, Mp3))
    IN  [i \in 1..Len(mp3) |-> AudioFile(mp3[i])]

\* what listFiles returns for a response; an empty bucket's response has no
\* Contents
ListResult(contents) ==
    IF contents = <<>> THEN <<>> ELSE SortByName(FilterMap(contents))

\* what listFiles may return on a bucket, over the orders in which the
\* service may return its keys
Listings(b) == {ListResult(Contents(b, order)) : order \in Orders(Keys(b))}

\* files.reduce((sum, file) => sum + file.size, 0)
RECURSIVE SumSizes(_)
SumSizes(files) ==
    IF files = <<>> THEN 0
    ELSE SumSizes(SubSeq(files, 1, Len(files) - 1)) + files[Len(files)].size

\* the size under which cleanupFiles takes a file for corrupted
CleanupThreshold == 1024

\* a size test that takes a file of exactly 1024 bytes too
IsCorruptedInclusive(file) == file.size <= CleanupThreshold

\* file.size < 1024
IsCorrupted(file) == file.size < CleanupThreshold

(***************************************************************************)
(* The operations of the facade.  Each is one request to the service, but  *)
(* cleanupFiles, which is a listing and then one delete request per file   *)
(* it takes for corrupted: cl is the position of that call.                *)
(***************************************************************************)
ReturnedNull(op, arg) ==
    [op |-> op, arg |-> arg, status |-> "null", value |-> <<>>, error |-> NoError]

\* the caller is between two calls: the last call has returned or thrown
\* and the caller has taken its result
Ready == ret.op = "none"

\* the outcomes of a request that reads or writes the bucket as a whole
Outcomes == {"ok"} \cup ServiceErrors

\* the outcomes of HeadObject and GetObject for a key
HeadOutcomes(b, key) ==
    (IF key \in Keys(b) THEN {"ok"} ELSE {"NotFound"}) \cup ServiceErrors

GetOutcomes(b, key) ==
    (IF key \in Keys(b) THEN {"ok", "NoBody"} ELSE {"NoSuchKey"}) \cup ServiceErrors

uploadFile(name, size) ==
    LET key == sanitizeFileName(name)
    IN  \E t \in Times, outcome \in Outcomes :
            /\ sent' = {key}
            /\ resp' = outcome
            /\ IF outcome = "ok"
               THEN /\ bucket' = Put(bucket, key, [size |-> size, lastModified |-> t])
                    /\ urls' = {key}
                    /\ ret' = Returned("uploadFile", [fileName |-> name, fileBuffer |-> size],
                                       getPublicUrl(key))
               ELSE /\ bucket' = bucket
                    /\ urls' = {}
                    /\ ret' = Thrown("uploadFile", [fileName |-> name, fileBuffer |-> size],
                                     Wrap("Failed to upload file", ServiceError(outcome)))
            /\ UNCHANGED <<env, fileName, cl>>

deleteFile(name) ==
    LET key == sanitizeFileName(name)
    IN  \E outcome \in Outcomes :
            /\ sent' = {key}
            /\ resp' = outcome
            /\ urls' = {}
            /\ IF outcome = "ok"
               THEN /\ bucket' = Remove(bucket, key)
                    /\ ret' = Returned("deleteFile", name, <<>>)
               ELSE /\ bucket' = bucket
                    /\ ret' = Thrown("deleteFile", name,
                                     Wrap("Failed to delete file", ServiceError(outcome)))
            /\ UNCHANGED <<env, fileName, cl>>

\* the keys listFiles builds a URL for
ListedKeys(files) == {files[i].key : i \in 1..Len(files)}

listFiles ==
    \E outcome \in Outcomes :
        /\ sent' = {}
        /\ resp' = outcome
        /\ IF outcome = "ok"
           THEN \E files \in Listings(bucket) :
                    /\ urls' = ListedKeys(files)
                    /\ ret' = Returned("listFiles", <<>>, files)
           ELSE /\ urls' = {}
                /\ ret' = Thrown("listFiles", <<>>,
                                 Wrap("Failed to list files", ServiceError(outcome)))
        /\ UNCHANGED <<env, fileName, bucket, cl>>

\* a catch that takes every error of the probe for not-found
fileExistsCatchAll(name, error) == Returned("fileExists", name, FALSE)

\* the catch block of fileExists
fileExistsCatch(name, error) ==
    IF error.name = "NotFound"
    THEN Returned("fileExists", name, FALSE)
    ELSE Thrown("fileExists", name, error)

fileExists(name) ==
    LET key == sanitizeFileName(name)
    IN  \E outcome \in HeadOutcomes(bucket, key) :
            /\ sent' = {key}
            /\ resp' = outcome
            /\ urls' = {}
            /\ ret' = IF outcome = "ok"
                      THEN Returned("fileExists", name, TRUE)
                      ELSE fileExistsCatch(name, ServiceError(outcome))
            /\ UNCHANGED <<env, fileName, bucket, cl>>

getFileStream(name) ==
    LET key == sanitizeFileName(name)
    IN  \E outcome \in GetOutcomes(bucket, key) :
            /\ sent' = {key}
            /\ resp' = outcome
            /\ urls' = {}
            /\ ret' = CASE outcome = "ok" ->
                            Returned("getFileStream", name, bucket[key].size)
                        [] outcome = "NoBody" ->
                            Thrown("getFileStream", name,
                                   Wrap("Failed to get file stream",
                                        [name |-> "Error", msg |-> "No file body received"]))
                        [] OTHER ->
                            Thrown("getFileStream", name,
                                   Wrap("Failed to get file stream", ServiceError(outcome)))
            /\ UNCHANGED <<env, fileName, bucket, cl>>

callGetPublicUrl(key) ==
    /\ sent' = {}
    /\ resp' = "none"
    /\ urls' = {key}
    /\ ret' = Returned("getPublicUrl", key, getPublicUrl(key))
    /\ UNCHANGED <<env, fileName, bucket, cl>>

\* the catch block of getFileInfo
getFileInfoCatch(name, error) ==
    IF error.name = "NotFound"
    THEN ReturnedNull("getFileInfo", name)
    ELSE Thrown("getFileInfo", name, error)

getFileInfo(name) ==
    LET key == sanitizeFileName(name)
    IN  \E outcome \in HeadOutcomes(bucket, key) :
            /\ sent' = {key}
            /\ resp' = outcome
            /\ urls' = {}
            /\ ret' = IF outcome = "ok"
                      THEN Returned("getFileInfo", name,
                                    [size |-> bucket[key].size,
                                     lastModified |-> bucket[key].lastModified])
                      ELSE getFileInfoCatch(name, ServiceError(outcome))
            /\ UNCHANGED <<env, fileName, bucket, cl>>

\* a total that leaves out the first file
StatsSkipFirst(files) ==
    [fileCount |-> Len(files),
     totalSize |-> IF files = <<>> THEN 0 ELSE SumSizes(SubSeq(files, 2, Len(files)))]

\* the result of getBucketStats for the files it read
Stats(files) == [fileCount |-> Len(files), totalSize |-> SumSizes(files)]

\* ret.arg records what the inner listFiles did: the list it returned, or
\* that it threw
getBucketStats ==
    \E outcome \in Outcomes :
        /\ sent' = {}
        /\ resp' = outcome
        /\ IF outcome = "ok"
           THEN \E files \in Listings(bucket) :
                    /\ urls' = ListedKeys(files)
                    /\ ret' = Returned("getBucketStats",
                                       [threw |-> FALSE, files |-> files], Stats(files))
           ELSE /\ urls' = {}
                /\ ret' = Returned("getBucketStats",
                                   [threw |-> TRUE, files |-> <<>>],
                                   [fileCount |-> 0, totalSize |-> 0])
        /\ UNCHANGED <<env, fileName, bucket, cl>>

\* cleanupFiles has been called and has not returned
Pending(op) ==
    [op |-> op, arg |-> <<>>, status |-> "pending", value |-> <<>>, error |-> NoError]

NoDelete == [key |-> <<>>]

\* cleanupFiles up to the response to its listing.  cl.start is the bucket
\* at that moment, cl.files the list the loop runs over.
cleanupFiles ==
    /\ cl.pc = "idle"
    /\ \E outcome \in Outcomes :
        /\ sent' = {}
        /\ resp' = outcome
        /\ IF outcome = "ok"
           THEN \E files \in Listings(bucket) :
                    /\ urls' = ListedKeys(files)
                    /\ ret' = Pending("cleanupFiles")
                    /\ cl' = [pc |-> "loop", files |-> files, i |-> 1,
                              cleaned |-> <<>>, start |-> bucket, del |-> NoDelete]
           ELSE /\ urls' = {}
                /\ ret' = Thrown("cleanupFiles", <<>>,
                                 Wrap("Failed to cleanup files",
                                      Wrap("Failed to list files", ServiceError(outcome))))
                /\ cl' = [pc |-> "failed", files |-> <<>>, i |-> 0,
                          cleaned |-> <<>>, start |-> bucket, del |-> NoDelete]
        /\ UNCHANGED <<env, fileName, bucket>>

\* the loop at a file it deletes: await this.deleteFile(file.name).  cl.del
\* records the request: the entry of the list, the key sent, and what the
\* bucket held under that key when the service took the request.
cleanupDelete ==
    /\ cl.pc = "loop"
    /\ cl.i <= Len(cl.files)
    /\ IsCorrupted(cl.files[cl.i])
    /\ LET file == cl.files[cl.i]
           key == sanitizeFileName(file.name)
       IN  \E outcome \in Outcomes :
               LET del == [key |-> key, listed |-> file, ok |-> outcome = "ok",
                           present |-> key \in Keys(bucket),
                           size |-> IF key \in Keys(bucket) THEN bucket[key].size ELSE 0]
               IN  /\ sent' = {key}
                   /\ resp' = outcome
                   /\ urls' = {}
                   /\ IF outcome = "ok"
                      THEN /\ bucket' = Remove(bucket, key)
                           /\ cl' = [cl EXCEPT !.i = @ + 1,
                                               !.cleaned = Append(@, file.name),
                                               !.del = del]
                           /\ ret' = ret
                      ELSE /\ bucket' = bucket
                           /\ cl' = [cl EXCEPT !.pc = "failed", !.del = del]
                           /\ ret' = Thrown("cleanupFiles", <<>>,
                                            Wrap("Failed to cleanup files",
                                                 Wrap("Failed to delete file",
                                                      ServiceError(outcome))))
    /\ UNCHANGED <<env, fileName>>

\* the loop at a file it keeps
cleanupSkip ==
    /\ cl.pc = "loop"
    /\ cl.i <= Len(cl.files)
    /\ ~IsCorrupted(cl.files[cl.i])
    /\ cl' = [cl EXCEPT !.i = @ + 1]
    /\ UNCHANGED <<env, fileName, bucket, ret, sent, resp, urls>>

\* return cleanedFiles
cleanupReturn ==
    /\ cl.pc = "loop"
    /\ cl.i > Len(cl.files)
    /\ ret' = Returned("cleanupFiles", <<>>, cl.cleaned)
    /\ cl' = [cl EXCEPT !.pc = "done"]
    /\ UNCHANGED <<env, fileName, bucket, sent, resp, urls>>

\* the caller takes the result of the call that has returned or thrown and
\* is ready for its next call
nextCall ==
    /\ ret.status \in {"ok", "null", "throw"}
    /\ ret' = NoCall
    /\ sent' = {}
    /\ resp' = "none"
    /\ urls' = {}
    /\ cl' = IdleCleanup
    /\ UNCHANGED <<env, fileName, bucket>>

(***************************************************************************)
(* Spec: one caller, on a bucket that may hold any keys.  A call starts    *)
(* when the one before it has returned or thrown.                          *)
(***************************************************************************)
Init ==
    /\ bucket \in Buckets
    /\ ret = NoCall
    /\ env = NoEnv
    /\ fileName = <<>>
    /\ sent = {}
    /\ resp = "none"
    /\ urls = {}
    /\ cl = IdleCleanup

Next ==
    \/ Ready /\ \E name \in Names, size \in Sizes : uploadFile(name, size)
    \/ Ready /\ \E name \in Names : deleteFile(name)
    \/ Ready /\ listFiles
    \/ Ready /\ \E name \in Names : fileExists(name)
    \/ Ready /\ \E name \in Names : getFileStream(name)
    \/ Ready /\ \E key \in KeyPool \cup Names : callGetPublicUrl(key)
    \/ Ready /\ \E name \in Names : getFileInfo(name)
    \/ Ready /\ getBucketStats
    \/ Ready /\ cleanupFiles
    \/ cleanupDelete
    \/ cleanupSkip
    \/ cleanupReturn
    \/ nextCall

Spec == Init /\ [][Next]_vars

(***************************************************************************)
(* Claims about Spec.                                                      *)
(***************************************************************************)
\* the keys of a bucket that end in '.mp3'
Mp3Keys(b) == {k \in Keys(b) : endsWith(k, Mp3)}

\* the sum of the sizes of the entries of a list, entry by entry
RECURSIVE TotalFrom(_, _)
TotalFrom(files, i) ==
    IF i > Len(files) THEN 0 ELSE files[i].size + TotalFrom(files, i + 1)

\* C2, as stated: every key sent to the storage service and every key a URL
\* is built from is sanitized, the keys of the URLs of listFiles and of
\* getPublicUrl included.
C2_EveryKeySanitized == \A k \in sent \cup urls : IsSanitized(k)

\* C2, amended: every key sent to the storage service is sanitized, and so
\* is the key of the URL that uploadFile returns.
C2_SentKeysSanitized ==
    /\ \A k \in sent : IsSanitized(k)
    /\ ret.op = "uploadFile" => \A k \in urls : IsSanitized(k)

\* cleanupFiles has listed a key with a separator and sent the delete
\* request for it
C2_Witness ==
    /\ cl.pc = "loop"
    /\ cl.del.key # <<>>
    /\ cl.del.listed.name = KeySlash
    /\ sent = {KeyLower}

\* C3: when cleanupFiles has returned, the bucket is the bucket it listed
\* less exactly the listed objects under 1024 bytes, every other object is
\* unchanged, and the names returned are the names of those objects.
C3_DeletesExactlySmall ==
    cl.pc = "done" =>
        LET small == {i \in 1..Len(cl.files) : cl.files[i].size < 1024}
            smallKeys == {cl.files[i].key : i \in small}
        IN  /\ Keys(bucket) = Keys(cl.start) \ smallKeys
            /\ \A k \in Keys(bucket) \cap Keys(cl.start) : bucket[k] = cl.start[k]
            /\ {ret.value[i] : i \in 1..Len(ret.value)} = smallKeys
            /\ Len(ret.value) = Cardinality(small)

\* C4: a successful listFiles returns one entry for each key of the bucket
\* that ends in '.mp3' and no other entry, in strictly ascending order of
\* name under localeCompare whatever the order of the response, each entry
\* with name = key, the object's size and timestamp and the URL
\* baseUrl/key; an empty bucket gives the empty list.
C4_ListSortedMp3 ==
    (ret.op = "listFiles" /\ ret.status = "ok") =>
        LET files == ret.value
        IN  /\ {files[i].key : i \in 1..Len(files)} = Mp3Keys(bucket)
            /\ Len(files) = Cardinality(Mp3Keys(bucket))
            /\ Cardinality(Keys(bucket)) <= MaxKeys
            /\ \A i \in 1..Len(files) :
                   /\ files[i].name = files[i].key
                   /\ files[i].url = BaseUrl \o <<"/">> \o files[i].key
                   /\ files[i].size = bucket[files[i].key].size
                   /\ files[i].lastModified = bucket[files[i].key].lastModified
            /\ \A i, j \in 1..Len(files) :
                   i < j => localeCompare(files[i].name, files[j].name) < 0
            /\ Keys(bucket) = {} => files = <<>>

\* listFiles returned the three '.mp3' keys of a bucket that holds all four
\* keys, the name with the separator first and the upper-case one last
C4_Witness ==
    /\ ret.op = "listFiles"
    /\ ret.status = "ok"
    /\ Keys(bucket) = KeyPool
    /\ Len(ret.value) = 3
    /\ ret.value[1].name = KeySlash
    /\ ret.value[2].name = KeyLower
    /\ ret.value[3].name = KeyUpper

\* C6: when cleanupFiles has failed it has thrown the error that wraps the
\* cause, every listed file under 1024 bytes before the failing one is gone
\* from the bucket, and every listed file after the failing one is still
\* there as it was.
C6_FailureKeepsOrder ==
    cl.pc = "failed" =>
        /\ ret.op = "cleanupFiles"
        /\ ret.status = "throw"
        /\ ret.error.msg = "Failed to cleanup files"
        /\ ret.error.cause.cause = ServiceError(resp)
        /\ \A j \in 1..Len(cl.files) :
               /\ (j < cl.i /\ cl.files[j].size < 1024) =>
                      cl.files[j].key \notin Keys(bucket)
               /\ j > cl.i =>
                      /\ cl.files[j].key \in Keys(bucket)
                      /\ bucket[cl.files[j].key] = cl.start[cl.files[j].key]

\* C7: getBucketStats always returns and never changes the bucket; when its
\* listFiles threw it returns zero and zero, otherwise the length of the
\* list it read and the sum of the sizes of its entries.
C7_StatsNeverThrows ==
    [][ret'.op = "getBucketStats" =>
          /\ ret'.status = "ok"
          /\ bucket' = bucket
          /\ ret'.arg.threw <=> resp' \in ServiceErrors
          /\ ret'.arg.threw => ret'.value = [fileCount |-> 0, totalSize |-> 0]
          /\ ~ret'.arg.threw =>
                 /\ ret'.arg.files \in Listings(bucket)
                 /\ ret'.value.fileCount = Len(ret'.arg.files)
                 /\ ret'.value.totalSize = TotalFrom(ret'.arg.files, 1)]_vars

\* getBucketStats returned zeros, its listing of a bucket with '.mp3' files
\* having failed
C7_Witness ==
    /\ ret.op = "getBucketStats"
    /\ resp \in ServiceErrors
    /\ Mp3Keys(bucket) # {}
    /\ ret.value = [fileCount |-> 0, totalSize |-> 0]

\* C8: fileExists and getFileInfo probe the sanitized key; a probe that
\* succeeds gives true, and the object's size and timestamp; a probe that
\* reports not-found gives false, and null; any other error of the probe is
\* thrown as it is.
C8_ProbeResults ==
    /\ ret.op \in {"fileExists", "getFileInfo"} =>
           /\ sent = {sanitizeFileName(ret.arg)}
           /\ \A k \in sent : IsSanitized(k)
           /\ resp \in ServiceErrors =>
                  (ret.status = "throw" /\ ret.error = [name |-> resp])
    /\ ret.op = "fileExists" =>
           /\ resp = "ok" => (ret.status = "ok" /\ ret.value = TRUE /\ sent \subseteq Keys(bucket))
           /\ resp = "NotFound" => (ret.status = "ok" /\ ret.value = FALSE)
    /\ ret.op = "getFileInfo" =>
           /\ resp = "ok" =>
                  /\ ret.status = "ok"
                  /\ \A k \in sent :
                         ret.value = [size |-> bucket[k].size,
                                      lastModified |-> bucket[k].lastModified]
           /\ resp = "NotFound" => ret.status = "null"

\* fileExists threw the error of a probe of a key that the bucket holds
C8_Witness ==
    /\ ret.op = "fileExists"
    /\ resp = "AccessDenied"
    /\ sent \subseteq Keys(bucket)
    /\ ret.status = "throw"
    /\ ret.error = [name |-> "AccessDenied"]

\* C9: a successful uploadFile stores the buffer under the sanitized name
\* (a name with a backslash and no '.mp3' under the name without the one
\* and with the other), leaves every other key of the bucket as it was and
\* returns baseUrl, '/', key; a failed one throws the error that wraps the
\* cause.
C9_UploadStoresUnderKey ==
    [][ret'.op = "uploadFile" =>
          LET key == sanitizeFileName(ret'.arg.fileName)
          IN  /\ sent' = {key}
              /\ IsSanitized(key)
              /\ ret'.arg.fileName = <<"A", "\\", "b">> => key = KeyUpper
              /\ resp' = "ok" =>
                     /\ ret'.status = "ok"
                     /\ key \in Keys(bucket')
                     /\ bucket'[key].size = ret'.arg.fileBuffer
                     /\ Keys(bucket') \ {key} = Keys(bucket) \ {key}
                     /\ \A k \in Keys(bucket) \ {key} : bucket'[k] = bucket[k]
                     /\ ret'.value = BaseUrl \o <<"/">> \o key
              /\ resp' # "ok" =>
                     /\ ret'.status = "throw"
                     /\ ret'.error = [name |-> "Error", msg |-> "Failed to upload file",
                                      cause |-> [name |-> resp']]]_vars

\* 'A\b' with a buffer of 2000 bytes was uploaded
C9_Witness ==
    /\ ret.op = "uploadFile"
    /\ ret.status = "ok"
    /\ ret.arg = [fileName |-> <<"A", "\\", "b">>, fileBuffer |-> 2000]
    /\ KeyUpper \in Keys(bucket)
    /\ bucket[KeyUpper].size = 2000
    /\ ret.value = <<"u", "/", "A", "b", ".", "m", "p", "3">>

(***************************************************************************)
(* SpecCfg: the constructor, on every environment.  A variable is unset,   *)
(* set to the empty string, or set to a value.                             *)
(***************************************************************************)
EnvNames == {"AWS_ACCESS_KEY_ID", "AWS_SECRET_ACCESS_KEY", "AWS_REGION",
             "S3_BUCKET_NAME", "S3_BASE_URL"}

EnvValues == {"undefined", "", "value"}

\* a value that is not falsy: neither undefined nor the empty string
Truthy(v) == v \notin {"undefined", ""}

\* process.env.AWS_REGION || 'ap-south-1'
ClientRegion(e) == IF Truthy(e["AWS_REGION"]) THEN e["AWS_REGION"] ELSE "ap-south-1"

\* the list validateConfig checks
required == <<"AWS_ACCESS_KEY_ID", "AWS_SECRET_ACCESS_KEY", "AWS_REGION",
              "S3_BUCKET_NAME", "S3_BASE_URL">>

\* required.filter(key => !process.env[key])
missing(e) == SelectSeq(required, LAMBDA key : ~Truthy(e[key]))

\* validateConfig throws this, or returns
validateConfig(e) ==
    IF Len(missing(e)) > 0
    THEN Thrown("constructor", <<>>,
                [name |-> "Error", msg |-> "Missing required environment variables",
                 names |-> missing(e)])
    ELSE Returned("constructor", <<>>,
                  [region |-> ClientRegion(e), bucketName |-> e["S3_BUCKET_NAME"],
                   baseUrl |-> e["S3_BASE_URL"]])

InitCfg ==
    /\ env \in [EnvNames -> EnvValues]
    /\ ret = NoCall
    /\ fileName = <<>>
    /\ bucket = EmptyBucket
    /\ sent = {}
    /\ resp = "none"
    /\ urls = {}
    /\ cl = IdleCleanup

\* new S3Service()
constructor ==
    /\ ret.op = "none"
    /\ ret' = validateConfig(env)
    /\ UNCHANGED <<env, fileName, bucket, sent, resp, urls, cl>>

NextCfg == constructor

SpecCfg == InitCfg /\ [][NextCfg]_vars

\* the four variables the specification takes for required
FourRequired == {"AWS_ACCESS_KEY_ID", "AWS_SECRET_ACCESS_KEY",
                 "S3_BUCKET_NAME", "S3_BASE_URL"}

\* C5: the constructor succeeds exactly when the four variables other than
\* AWS_REGION are set, with the region defaulting to 'ap-south-1' when
\* AWS_REGION is not set; when it fails, the error names exactly the missing
\* ones of the four.
C5_RegionOptional ==
    ret.op = "constructor" =>
        LET missingFour == {k \in FourRequired : ~Truthy(env[k])}
        IN  /\ ret.status = "ok" <=> missingFour = {}
            /\ ret.status = "ok" => ret.value.region = ClientRegion(env)
            /\ ret.status = "throw" =>
                   {ret.error.names[i] : i \in 1..Len(ret.error.names)} = missingFour

(***************************************************************************)
(* SpecConc: a cleanupFiles call of one caller and uploadFile calls of     *)
(* another, on a bucket that only the facade has written.  The requests    *)
(* of the two callers reach the service in any order.                      *)
(***************************************************************************)
\* uploadFile of the other caller, whose result the model does not keep
otherUpload(name, size) ==
    LET key == sanitizeFileName(name)
    IN  \E t \in Times, outcome \in Outcomes :
            /\ bucket' = IF outcome = "ok"
                         THEN Put(bucket, key, [size |-> size, lastModified |-> t])
                         ELSE bucket
            /\ UNCHANGED <<env, fileName, ret, sent, resp, urls, cl>>

InitConc ==
    /\ bucket = EmptyBucket
    /\ ret = NoCall
    /\ env = NoEnv
    /\ fileName = <<>>
    /\ sent = {}
    /\ resp = "none"
    /\ urls = {}
    /\ cl = IdleCleanup

NextConc ==
    \/ \E name \in Names, size \in Sizes : otherUpload(name, size)
    \/ Ready /\ cleanupFiles
    \/ cleanupDelete
    \/ cleanupSkip
    \/ cleanupReturn
    \/ nextCall

SpecConc == InitConc /\ [][NextConc]_vars

\* C10, as stated: no delete request of cleanupFiles removes an object that
\* is 1024 bytes or more when the service takes the request.
C10_NeverDeletesValid ==
    (cl.pc # "idle" /\ cl.del.key # <<>> /\ cl.del.ok /\ cl.del.present) =>
        cl.del.size < 1024

\* C10, amended: every delete request of cleanupFiles is for the sanitized
\* name of an entry of its own listing that the listing gave as under 1024
\* bytes.
C10_DeletesListedSmall ==
    (cl.pc # "idle" /\ cl.del.key # <<>>) =>
        /\ \E j \in 1..Len(cl.files) : cl.files[j] = cl.del.listed
        /\ cl.del.listed.size < 1024
        /\ cl.del.key = sanitizeFileName(cl.del.listed.name)
        /\ cl.del.listed.key \in Keys(cl.start)
        /\ cl.start[cl.del.listed.key].size < 1024

\* cleanupFiles deleted a file that it listed as under 1024 bytes and that
\* an upload had replaced by one of 1024 bytes or more
C10_Witness ==
    /\ cl.pc # "idle"
    /\ cl.del.key # <<>>
    /\ cl.del.ok
    /\ cl.del.present
    /\ cl.del.listed.size < 1024
    /\ cl.del.size >= 1024

====
